---------------------------- MODULE Spec2Model ----------------------------
(***************************************************************************)
(* Verification model of the rk3576-ai-vision detection pipeline.          *)
(*                                                                         *)
(*   - FallDetector (src/src/common/fall_detector.py): the sliding-window  *)
(*     fall alarm, as a state machine driven by detect() / reset() calls.  *)
(*   - nms, _filter_boxes, yolov8_postprocess                              *)
(*     (src/src/common/postprocess.py): confidence filter and per-class    *)
(*     greedy suppression, as operators applied by actions whose inputs    *)
(*     are drawn from bounded sets.                                        *)
(*   - preprocess_with_letterbox, restore_coords                           *)
(*     (src/src/common/preprocess.py) and get_class_name, in exact         *)
(*     rational arithmetic.                                                *)
(*   - BaseDetector.detect (src/src/detectors/detector.py): the steps of   *)
(*     one call after another on one instance.                             *)
(*   - Camera (src/src/common/camera.py): the capture thread, its owner    *)
(*     and a reader, interleaved step by step.                             *)
(*   - the decoding loop of yolov8_postprocess and _box_process.           *)
(*                                                                         *)
(* Numbers.  confirm_ratio, the IoU threshold and the confidence threshold *)
(* are rationals <<num, den>>; a comparison a/b >= n/d is the integer      *)
(* comparison a*d >= n*b.  Box coordinates are polynomials in the code's   *)
(* additive epsilon (see the suppression section).                         *)
(***************************************************************************)
EXTENDS Integers, Sequences, FiniteSets, TLC

VARIABLES
    \* ---- FallDetector fields (fall_detector.py:14-19)
    threshold_frames,   \* self.threshold_frames
    angle_threshold,    \* self.angle_threshold
    confirm_ratio,      \* self.confirm_ratio, as <<num, den>>
    history,            \* self.history: sequence of BOOLEAN
    last_fall_time,     \* self.last_fall_time; NoTime models None
    \* ---- environment and call record of the FallDetector
    now,                \* value time.time() returns
    op,                 \* the operation that produced this state
    kp_n,               \* len(keypoints) of the last detect(); KpNone for None
    ret_is_fall,        \* first component of the last detect() result
    ret_angle,          \* second component of the last detect() result
    \* ---- history variables of the FallDetector
    inputs,             \* angles of the valid detect() calls since __init__/reset()
    alarm,              \* is_fall of the last valid detect() since __init__/reset()
    transition_time,    \* time of the last valid call that turned alarm FALSE -> TRUE
    pre_len,            \* len(self.history) when the last operation started
    pre_lft,            \* self.last_fall_time when the last operation started
    \* ---- one call of nms(boxes, scores, iou_threshold)
    nms_boxes,          \* boxes: sequence of <<x1, y1, x2, y2>>
    nms_scores,         \* scores: sequence of integers (in units of 1/16)
    nms_thr,            \* iou_threshold, as <<num, den>>
    nms_order,          \* scores.argsort()[::-1] as computed by this call
    nms_keep,           \* the returned index array
    nms_divzero,        \* whether line 106 divided by zero in this call
    nms_pc,             \* "idle", "call" (arguments bound), "done" (returned)
    \* ---- one call of _filter_boxes(boxes, box_confidences, box_class_probs, obj_thresh)
    flt_boxes,          \* boxes: sequence of boxes
    flt_conf,           \* box_confidences, in units of 1/ProbDen
    flt_probs,          \* box_class_probs: sequence of class-probability vectors
    flt_thr,            \* obj_thresh, as <<num, den>>
    flt_ret,            \* the returned (boxes, classes, scores)
    flt_pc,             \* "idle", "call", "done"
    \* ---- one call of yolov8_postprocess, from the concatenated candidates on
    pp_boxes,           \* boxes after np.concatenate (line 154)
    pp_probs,           \* classes_conf after np.concatenate (line 155)
    pp_obj,             \* obj_thresh
    pp_iou,             \* nms_thresh
    pp_f,               \* boxes, classes, scores after the filter (line 159)
    pp_todo,            \* classes the for loop of line 163 has still to visit
    pp_acc,             \* nboxes, nclasses, nscores
    pp_ret,             \* the returned triple; none = TRUE is (None, None, None)
    pp_pc               \* "idle", "filter", "loop", "done"

VARIABLES
    \* ---- one call of preprocess_with_letterbox(img, target_size)
    lb_w,               \* img.shape[1]
    lb_h,               \* img.shape[0]
    lb_tw,              \* target_size[0]
    lb_th,              \* target_size[1]
    lb_ret,             \* scale, new size and pad computed by the call
    lb_pc,              \* "idle", "call", "done"
    \* ---- one call of restore_coords(boxes, scale, pad)
    rc_boxes,           \* the caller's array, as it is now
    rc_in,              \* the caller's array as it was when the call started
    rc_scale,           \* scale, a rational
    rc_pad,             \* pad, <<pad_x, pad_y>>
    rc_ret,             \* the returned array
    rc_pc,              \* "idle", "call", "done"
    \* ---- one call of get_class_name(class_id)
    cn_id,              \* class_id
    cn_ret,             \* the returned string
    cn_pc               \* "idle", "call", "done"

VARIABLES
    \* ---- a detector instance (detector.py:23-28) and its detect() calls
    det_scale,          \* self._scale, a rational
    det_pad,            \* self._pad, <<pad_x, pad_y>>
    det_pc,             \* "idle", "pre", "infer", "post", "returned", "raised"
    det_w,              \* width of the frame of the current call
    det_h,              \* height of the frame of the current call
    det_outputs,        \* what self._inference returned, as decoded candidates
    det_post,           \* what yolov8_postprocess returned
    det_ret,            \* what detect() returned
    \* ---- history variables of the detector
    det_calls,          \* detect() calls started on the instance
    det_infer_calls,    \* self._inference calls of the current detect() call
    det_post_ran,       \* yolov8_postprocess was called in the current call
    det_restore_ran,    \* restore_coords was called in the current call
    det_err,            \* "none", or the step whose exception ended the call
    det_prev_scale,     \* self._scale when the current call started
    det_prev_failed     \* the call before the current one ended in an exception

VARIABLES
    \* ---- Camera fields (camera.py:12-21) and the device
    cam_cap,            \* self.cap: 0 is None, otherwise the id of a capture object
    cam_open,           \* ids of the capture objects whose device handle is open
    cam_frame,          \* self.frame: 0 is None, otherwise the content of a frame
    cam_running,        \* self.running
    cam_lock,           \* self.lock: "free", or the thread that holds it
    \* ---- the capture thread (_capture_loop, _reconnect)
    cap_pc,             \* "none", "test", "read", "lock", "store", "sleep",
                        \* "rc_release", "rc_open", "exited"
    fail_count,         \* the local fail_count
    cap_frame,          \* the local frame of line 39; 0 when it holds none
    \* ---- the thread that calls start(), stop(), release()
    main_pc,            \* "new", "running", "stop_join", "stopped", "rel_join",
                        \* "rel_cap", "released"
    \* ---- a thread that calls read()
    rd_pc,              \* "idle", "locked"
    rd_ret,             \* what the last read() returned
    \* ---- history variables of the camera
    rd_seen,            \* self.frame when the current read() took the lock
    cam_consec          \* failed device reads since the last successful read,
                        \* the last reconnect or the start of the thread

VARIABLES
    \* ---- the decoding loop of one yolov8_postprocess call (lines 135-143)
    dec_n,              \* len(outputs)
    dec_img,            \* img_size, (width, height)
    dec_i,              \* the loop variable i; default_branch after the loop
    dec_reads,          \* per finished iteration, the <<box, class>> indices read
    dec_grid,           \* <<grid_h, grid_w>> of the box tensor last decoded
    dec_cell,           \* <<row, col>> of the cell looked at in that tensor
    dec_off,            \* the four outputs of _dfl for that cell, in halves
    dec_xyxy,           \* the box decoded for that cell, in half pixels
    dec_pc              \* "idle", "loop", "done", "IndexError"

fallVars == <<threshold_frames, angle_threshold, confirm_ratio, history,
              last_fall_time, now, op, kp_n, ret_is_fall, ret_angle,
              inputs, alarm, transition_time, pre_len, pre_lft>>

nmsVars == <<nms_boxes, nms_scores, nms_thr, nms_order, nms_keep, nms_divzero,
             nms_pc>>

fltVars == <<flt_boxes, flt_conf, flt_probs, flt_thr, flt_ret, flt_pc>>

ppVars == <<pp_boxes, pp_probs, pp_obj, pp_iou, pp_f, pp_todo, pp_acc, pp_ret,
            pp_pc>>

lbVars == <<lb_w, lb_h, lb_tw, lb_th, lb_ret, lb_pc>>

rcVars == <<rc_boxes, rc_in, rc_scale, rc_pad, rc_ret, rc_pc>>

cnVars == <<cn_id, cn_ret, cn_pc>>

detVars == <<det_scale, det_pad, det_pc, det_w, det_h, det_outputs,
             det_post, det_ret, det_calls, det_infer_calls, det_post_ran,
             det_restore_ran, det_err, det_prev_scale, det_prev_failed>>

camVars == <<cam_cap, cam_open, cam_frame, cam_running, cam_lock, cap_pc,
             fail_count, cap_frame, main_pc, rd_pc, rd_ret, rd_seen,
             cam_consec>>

decVars == <<dec_n, dec_img, dec_i, dec_reads, dec_grid, dec_cell, dec_off,
             dec_xyxy, dec_pc>>

vars == <<fallVars, nmsVars, fltVars, ppVars, lbVars, rcVars, cnVars, detVars, camVars, decVars>>

\* what the operations of one component leave alone
nonFallVars == <<nmsVars, fltVars, ppVars, lbVars, rcVars, cnVars, detVars, camVars, decVars>>
nonNmsVars == <<fallVars, fltVars, ppVars, lbVars, rcVars, cnVars, detVars, camVars, decVars>>
nonFltVars == <<fallVars, nmsVars, ppVars, lbVars, rcVars, cnVars, detVars, camVars, decVars>>
nonPpVars == <<fallVars, nmsVars, fltVars, lbVars, rcVars, cnVars, detVars, camVars, decVars>>
nonLbVars == <<fallVars, nmsVars, fltVars, ppVars, rcVars, cnVars, detVars, camVars, decVars>>
nonRcVars == <<fallVars, nmsVars, fltVars, ppVars, lbVars, cnVars, detVars, camVars, decVars>>
nonCnVars == <<fallVars, nmsVars, fltVars, ppVars, lbVars, rcVars, detVars, camVars, decVars>>
nonDetVars == <<fallVars, nmsVars, fltVars, ppVars, lbVars, rcVars, cnVars, camVars, decVars>>
nonCamVars == <<fallVars, nmsVars, fltVars, ppVars, lbVars, rcVars, cnVars, detVars, decVars>>
nonDecVars == <<fallVars, nmsVars, fltVars, ppVars, lbVars, rcVars, cnVars, detVars, camVars>>

-----------------------------------------------------------------------------
(* Bounds *)

\* valid detect() calls explored beyond a full window
MaxExtra == 1
\* largest clock value
MaxTime == 2
\* largest number of boxes passed to nms
MaxBoxes == 3
\* largest number of candidates passed to _filter_boxes and to the
\* suppression stage of yolov8_postprocess
MaxCands == 3

\* detect() calls made on one detector instance
MaxCalls == 2

\* distinct frame contents the device delivers
MaxFrames == 2
\* capture objects created on one Camera
MaxHandles == 2

\* camera.py:36
max_retries == 5

\* largest len(outputs) passed to yolov8_postprocess
MaxOutputs == 9
\* postprocess.py:136
default_branch == 3

-----------------------------------------------------------------------------
(* FallDetector *)

NoTime == -1
KpNone == -1

\* keypoints[i][:2] of the three keypoints the angle is computed from
Pt(x, y) == <<x, y>>

\* Constructor arguments explored: (threshold_frames, angle_threshold, confirm_ratio)
DefaultConfig == <<15, 60, <<4, 5>>>>
SmallConfigs == { <<2, 60, <<1, 2>>>>, <<3, 45, <<4, 5>>>>, <<3, 60, <<2, 3>>>> }

\* Keypoint arrays: n = len(keypoints) (KpNone for None); head = keypoints[0],
\* hip_l = keypoints[11], hip_r = keypoints[12] where they exist.
Heads == { Pt(2, 0), Pt(4, 0), Pt(4, 2), Pt(2, 2) }
Keypoints ==
    [n : {KpNone, 0, 11}, head : {Pt(2, 0)}, hip_l : {Pt(1, 2)}, hip_r : {Pt(3, 2)}]
    \cup [n : {12, 13}, head : Heads, hip_l : {Pt(1, 2)}, hip_r : {Pt(3, 2)}]
Keypoints15 ==
    [n : {KpNone, 11}, head : {Pt(2, 0)}, hip_l : {Pt(1, 2)}, hip_r : {Pt(3, 2)}]
    \cup [n : {17}, head : {Pt(2, 0), Pt(4, 2)}, hip_l : {Pt(1, 2)}, hip_r : {Pt(3, 2)}]

\* np.abs(np.arctan2(dx, -dy) * 180 / np.pi) on the eight compass directions.
\* dx and dy are floats (the hip is a true division), so for dy = 0 the second
\* argument is -0.0: arctan2(0.0, -0.0) = pi and arctan2(+-a, -0.0) = +-pi/2.
AbsAtan2Deg(dx, dy) ==
    CASE dx = 0 /\ dy < 0 -> 0
      [] dx = 0 /\ dy >= 0 -> 180
      [] dx # 0 /\ dy = 0 -> 90
      [] dx # 0 /\ dy < 0 /\ dx * dx = dy * dy -> 45
      [] dx # 0 /\ dy > 0 /\ dx * dx = dy * dy -> 135

CalcBodyAngle_Unguarded(kp) ==
    LET dx2 == 2 * kp.head[1] - (kp.hip_l[1] + kp.hip_r[1])
        dy2 == 2 * kp.head[2] - (kp.hip_l[2] + kp.hip_r[2])
    IN  AbsAtan2Deg(dx2, dy2)
\* _calc_body_angle: keypoints[12] raises IndexError when n < 13 and the bare
\* except returns 0.  dx and dy are doubled to stay in the integers.
CalcBodyAngle(kp) ==
    IF kp.n < 13
    THEN 0
    ELSE LET dx2 == 2 * kp.head[1] - (kp.hip_l[1] + kp.hip_r[1])
             dy2 == 2 * kp.head[2] - (kp.hip_l[2] + kp.hip_r[2])
         IN  AbsAtan2Deg(dx2, dy2)

KeypointsRejected_Eleven(kp) == kp.n = KpNone \/ kp.n < 11
\* detect, line 22: keypoints is None or len(keypoints) < 12
KeypointsRejected(kp) == kp.n = KpNone \/ kp.n < 12

\* detect, line 26
IsFalling(angle, thr) == angle > thr

PushWindow_EvictNewest(h, s, cap) ==
    IF Len(h) + 1 > cap THEN h ELSE Append(h, s)
\* detect, lines 27-30: append, then pop(0) once the capacity is exceeded
PushWindow(h, s, cap) ==
    LET a == Append(h, s) IN IF Len(a) > cap THEN Tail(a) ELSE a

RECURSIVE CountTrue(_)
\* sum(self.history)
CountTrue(h) ==
    IF h = <<>> THEN 0 ELSE (IF Head(h) THEN 1 ELSE 0) + CountTrue(Tail(h))

FallDecision_Strict(h, cap, ratio) ==
    Len(h) >= cap /\ CountTrue(h) * ratio[2] > ratio[1] * Len(h)
\* detect, lines 32-34 and 39: the returned is_fall
FallDecision(h, cap, ratio) ==
    Len(h) >= cap /\ CountTrue(h) * ratio[2] >= ratio[1] * Len(h)

NextLastFallTime_FirstOnly(is_fall, lft, t) ==
    IF is_fall /\ lft = NoTime THEN t ELSE lft
\* detect, lines 35-36
NextLastFallTime(is_fall, lft, t) == IF is_fall THEN t ELSE lft

InitFallWith(cfgs) ==
    /\ \E c \in cfgs :
          /\ threshold_frames = c[1]
          /\ angle_threshold = c[2]
          /\ confirm_ratio = c[3]
    /\ history = <<>>
    /\ last_fall_time = NoTime
    /\ now = 0
    /\ op = "init"
    /\ kp_n = KpNone
    /\ ret_is_fall = FALSE
    /\ ret_angle = 0
    /\ inputs = <<>>
    /\ alarm = FALSE
    /\ transition_time = NoTime
    /\ pre_len = 0
    /\ pre_lft = NoTime

\* detect(keypoints), lines 21-39
Detect(kp) ==
    /\ UNCHANGED nonFallVars
    /\ op' = "detect"
    /\ kp_n' = kp.n
    /\ pre_len' = Len(history)
    /\ pre_lft' = last_fall_time
    /\ UNCHANGED <<threshold_frames, angle_threshold, confirm_ratio, now>>
    /\ IF KeypointsRejected(kp)
       THEN /\ ret_is_fall' = FALSE
            /\ ret_angle' = 0
            /\ UNCHANGED <<history, last_fall_time, inputs, alarm, transition_time>>
       ELSE LET angle == CalcBodyAngle(kp)
                h == PushWindow(history, IsFalling(angle, angle_threshold),
                                threshold_frames)
                is_fall == FallDecision(h, threshold_frames, confirm_ratio)
            IN  /\ Len(inputs) < threshold_frames + MaxExtra
                /\ history' = h
                /\ last_fall_time' = NextLastFallTime(is_fall, last_fall_time, now)
                /\ ret_is_fall' = is_fall
                /\ ret_angle' = angle
                /\ inputs' = Append(inputs, angle)
                /\ alarm' = is_fall
                /\ transition_time' =
                      IF is_fall /\ ~alarm THEN now ELSE transition_time

ResetClears_KeepTime == <<<<>>, last_fall_time>>
\* reset, lines 53-55: the new (history, last_fall_time)
ResetClears == <<<<>>, NoTime>>

\* reset()
Reset ==
    /\ UNCHANGED nonFallVars
    /\ op' = "reset"
    /\ pre_len' = Len(history)
    /\ pre_lft' = last_fall_time
    /\ history' = ResetClears[1]
    /\ last_fall_time' = ResetClears[2]
    /\ inputs' = <<>>
    /\ alarm' = FALSE
    /\ transition_time' = NoTime
    /\ UNCHANGED <<threshold_frames, angle_threshold, confirm_ratio, now,
                   kp_n, ret_is_fall, ret_angle>>

\* the wall clock read by time.time() advances between calls
Tick ==
    /\ UNCHANGED nonFallVars
    /\ now < MaxTime
    /\ now' = now + 1
    /\ op' = "tick"
    /\ pre_len' = Len(history)
    /\ pre_lft' = last_fall_time
    /\ UNCHANGED <<threshold_frames, angle_threshold, confirm_ratio, history,
                   last_fall_time, kp_n, ret_is_fall, ret_angle, inputs, alarm,
                   transition_time>>

-----------------------------------------------------------------------------
(* nms: greedy suppression (postprocess.py:73-110)                         *)
(*                                                                         *)
(* A number is a polynomial c0 + c1*eps + c2*eps^2 in eps = 0.00001, the   *)
(* constant of lines 102-103, written <<c0, c1, c2>>.  With coefficients   *)
(* far below 1/eps the order of two such numbers is the lexicographic      *)
(* order of their coefficients, so every comparison of the code is decided *)
(* exactly.  Indices are 1-based.                                          *)

Num(c0, c1) == <<c0, c1, 0>>
Zero == <<0, 0, 0>>
Eps == <<0, 1, 0>>

PAdd(a, b) == <<a[1] + b[1], a[2] + b[2], a[3] + b[3]>>
PSub(a, b) == <<a[1] - b[1], a[2] - b[2], a[3] - b[3]>>
PScale(k, a) == <<k * a[1], k * a[2], k * a[3]>>
\* product of two numbers of degree at most 1
PMul(a, b) == <<a[1] * b[1], a[1] * b[2] + a[2] * b[1], a[2] * b[2]>>
Sgn(i) == IF i > 0 THEN 1 ELSE IF i < 0 THEN -1 ELSE 0
PSign(a) == IF a[1] # 0 THEN Sgn(a[1]) ELSE IF a[2] # 0 THEN Sgn(a[2]) ELSE Sgn(a[3])
PLeq(a, b) == PSign(PSub(b, a)) >= 0
PMax(a, b) == IF PLeq(a, b) THEN b ELSE a
PMin(a, b) == IF PLeq(a, b) THEN a ELSE b

Box(x1, y1, x2, y2) == <<Num(x1, 0), Num(y1, 0), Num(x2, 0), Num(y2, 0)>>

\* lines 83-86: w, h and areas of one box
BoxW(b) == PSub(b[3], b[1])
BoxH(b) == PSub(b[4], b[2])
BoxArea(b) == PMul(BoxW(b), BoxH(b))

\* lines 97-104: inter of the kept box bi with a remaining box bj
Inter(bi, bj) ==
    LET xx1 == PMax(bi[1], bj[1])
        yy1 == PMax(bi[2], bj[2])
        xx2 == PMin(PAdd(bi[1], BoxW(bi)), PAdd(bj[1], BoxW(bj)))
        yy2 == PMin(PAdd(bi[2], BoxH(bi)), PAdd(bj[2], BoxH(bj)))
        w1 == PMax(Zero, PAdd(PSub(xx2, xx1), Eps))
        h1 == PMax(Zero, PAdd(PSub(yy2, yy1), Eps))
    IN  PMul(w1, h1)

\* line 106: the divisor areas[i] + areas[order[1:]] - inter
OvrDenom(bi, bj) == PSub(PAdd(BoxArea(bi), BoxArea(bj)), Inter(bi, bj))

\* lines 106-107: ovr <= iou_threshold as numpy evaluates it.  A zero divisor
\* gives inf (inter > 0) or nan (inter = 0) with a RuntimeWarning, and both
\* compare false against the threshold.
OvrLeq(bi, bj, t) ==
    LET inter == Inter(bi, bj)
        denom == OvrDenom(bi, bj)
        d == PSub(PScale(t[1], denom), PScale(t[2], inter))
    IN  CASE PSign(denom) > 0 -> PSign(d) >= 0
          [] PSign(denom) < 0 -> PSign(d) <= 0
          [] OTHER -> FALSE

ArgsortDesc_Ascending(scores) ==
    LET n == Len(scores)
    IN  { o \in [1..n -> 1..n] :
            /\ \A i, j \in 1..n : i # j => o[i] # o[j]
            /\ \A i \in 1..(n - 1) : scores[o[i]] <= scores[o[i + 1]] }
\* the results scores.argsort()[::-1] can have: every permutation of the
\* indices in non-increasing score order.  The order of equal scores depends
\* on the sort kernel numpy selects for the platform.
ArgsortDesc(scores) ==
    LET n == Len(scores)
    IN  { o \in [1..n -> 1..n] :
            /\ \A i, j \in 1..n : i # j => o[i] # o[j]
            /\ \A i \in 1..(n - 1) : scores[o[i]] >= scores[o[i + 1]] }

\* order[inds + 1] of line 108: the elements of rest that pass the test
RECURSIVE Survivors(_, _, _, _)
Survivors(boxes, i, rest, t) ==
    IF rest = <<>> THEN <<>>
    ELSE LET tl == Survivors(boxes, i, Tail(rest), t)
         IN  IF OvrLeq(boxes[i], boxes[Head(rest)], t)
             THEN <<Head(rest)>> \o tl ELSE tl

RECURSIVE NmsLoop(_, _, _)
\* lines 89-110: the while loop, from the current value of order
NmsLoop(boxes, order, t) ==
    IF order = <<>> THEN <<>>
    ELSE IF Len(order) = 1 THEN <<order[1]>>
    ELSE <<order[1]>> \o NmsLoop(boxes, Survivors(boxes, order[1], Tail(order), t), t)

RECURSIVE NmsDivZero(_, _, _)
\* whether some evaluation of line 106 in the loop has a zero divisor
NmsDivZero(boxes, order, t) ==
    IF Len(order) <= 1 THEN FALSE
    ELSE \/ \E k \in 2..Len(order) :
               PSign(OvrDenom(boxes[order[1]], boxes[order[k]])) = 0
         \/ NmsDivZero(boxes, Survivors(boxes, order[1], Tail(order), t), t)

\* Arguments explored
BoxPool ==
    { Box(0, 0, 10, 10),            \* a 10 x 10 box
      Box(10, 0, 20, 10),           \* shares an edge with it
      Box(1, 1, 11, 11),            \* overlaps it, IoU 81/119
      Box(40, 40, 50, 50),          \* far from all
      Box(0, 0, 0, 0),              \* zero-area: a point
      Box(30, 30, 30, 30),          \* zero-area: another point
      <<Num(0, 0), Num(0, 0), Num(0, 1), Num(0, 1)>> }   \* side eps
ScorePool == { 9, 16 }
IouThresholds == { <<0, 1>>, <<45, 100>>, <<1, 2>> }

NmsIdle ==
    /\ nms_boxes = <<>>
    /\ nms_scores = <<>>
    /\ nms_thr = <<45, 100>>
    /\ nms_order = <<>>
    /\ nms_keep = <<>>
    /\ nms_divzero = FALSE
    /\ nms_pc = "idle"

\* the caller binds the arguments of nms
InitNmsCall ==
    /\ \E n \in 0..MaxBoxes :
          /\ nms_boxes \in [1..n -> BoxPool]
          /\ nms_scores \in [1..n -> ScorePool]
    /\ nms_thr \in IouThresholds
    /\ nms_order = <<>>
    /\ nms_keep = <<>>
    /\ nms_divzero = FALSE
    /\ nms_pc = "call"

\* nms(boxes, scores, iou_threshold), lines 73-110
Nms ==
    /\ nms_pc = "call"
    /\ \E o \in ArgsortDesc(nms_scores) :
          /\ nms_order' = o
          /\ nms_keep' = NmsLoop(nms_boxes, o, nms_thr)
          /\ nms_divzero' = NmsDivZero(nms_boxes, o, nms_thr)
    /\ nms_pc' = "done"
    /\ UNCHANGED <<nms_boxes, nms_scores, nms_thr>>
    /\ UNCHANGED nonNmsVars


-----------------------------------------------------------------------------
(* _filter_boxes (postprocess.py:54-70)                                    *)
(*                                                                         *)
(* Class probabilities and confidences are multiples of 1/ProbDen, so a    *)
(* score (their product) is a multiple of 1/ScoreDen and the products and  *)
(* the comparison with the threshold are exact in binary floating point.   *)
(* Class ids are 0-based as in the code; sequences are 1-based.            *)

\* np.ones_like of line 143: the confidence 1.0 is ProbDen units of 1/ProbDen
ProbDen == 4
ScoreDen == ProbDen * ProbDen

RECURSIVE SeqMax(_)
\* np.max(box_class_probs, axis=-1) for one row
SeqMax(p) ==
    IF Len(p) = 1 THEN p[1]
    ELSE LET m == SeqMax(Tail(p)) IN IF p[1] >= m THEN p[1] ELSE m

ArgMax_Last(p) ==
    (CHOOSE c \in DOMAIN p : p[c] = SeqMax(p) /\ \A d \in DOMAIN p : p[d] = SeqMax(p) => d <= c) - 1
\* np.argmax(box_class_probs, axis=-1) for one row: the first maximum
ArgMax(p) ==
    (CHOOSE c \in DOMAIN p : p[c] = SeqMax(p) /\ \A d \in 1..(c - 1) : p[d] < p[c]) - 1

\* line 64: class_max_score * box_confidences >= obj_thresh
PassesThresh(score, thr) == score * thr[2] >= thr[1] * ScoreDen

RECURSIVE WhereUpTo(_, _)
WhereUpTo(cond, n) ==
    IF n = 0 THEN <<>>
    ELSE IF cond[n] THEN Append(WhereUpTo(cond, n - 1), n)
         ELSE WhereUpTo(cond, n - 1)
\* np.where(cond): the positions, ascending, at which cond is true
Where(cond) == WhereUpTo(cond, Len(cond))

Gather(q, ix) == [k \in DOMAIN ix |-> q[ix[k]]]

\* _filter_boxes, lines 59-70.  idx is the candidate index of each returned
\* row (np.where of line 64), kept to relate the output to the input.
FilterBoxes(boxes, conf, probs, thr) ==
    LET n == Len(boxes)
        score(i) == SeqMax(probs[i]) * conf[i]
        pos == Where([i \in 1..n |-> PassesThresh(score(i), thr)])
    IN  [ boxes   |-> Gather(boxes, pos),
          classes |-> [k \in DOMAIN pos |-> ArgMax(probs[pos[k]])],
          scores  |-> [k \in DOMAIN pos |-> score(pos[k])],
          idx     |-> pos ]

\* Arguments explored: (box, class probabilities) of one candidate
CandPool ==
    { <<Box(0, 0, 10, 10),   <<4, 0, 0>>>>,    \* class 0, 1.0
      <<Box(1, 1, 11, 11),   <<3, 1, 0>>>>,    \* class 0, 0.75, overlaps the first
      <<Box(40, 40, 50, 50), <<2, 0, 0>>>>,    \* class 0, 0.5
      <<Box(40, 40, 50, 50), <<1, 1, 0>>>>,    \* classes 0 and 1 tie at 0.25
      <<Box(40, 40, 50, 50), <<0, 0, 0>>>>,    \* all zero
      <<Box(0, 0, 10, 10),   <<0, 3, 3>>>>,    \* classes 1 and 2 tie at 0.75
      <<Box(10, 0, 20, 10),  <<0, 2, 0>>>>,    \* class 1, 0.5
      <<Box(1, 1, 11, 11),   <<0, 0, 4>>>> }   \* class 2, 1.0
ConfPool == { 2, 4 }
ObjThresholds == { <<1, 4>>, <<1, 2>> }
PostIouThresholds == { <<45, 100>>, <<0, 1>> }

NoRet == [boxes |-> <<>>, classes |-> <<>>, scores |-> <<>>, idx |-> <<>>]

FltIdle ==
    /\ flt_boxes = <<>>
    /\ flt_conf = <<>>
    /\ flt_probs = <<>>
    /\ flt_thr = <<1, 4>>
    /\ flt_ret = NoRet
    /\ flt_pc = "idle"

\* the caller binds the arguments of _filter_boxes
InitFltCall ==
    /\ \E n \in 0..MaxCands : \E cs \in [1..n -> CandPool] :
          /\ flt_boxes = [i \in 1..n |-> cs[i][1]]
          /\ flt_probs = [i \in 1..n |-> cs[i][2]]
          /\ flt_conf \in [1..n -> ConfPool]
    /\ flt_thr \in ObjThresholds
    /\ flt_ret = NoRet
    /\ flt_pc = "call"

\* _filter_boxes(boxes, box_confidences, box_class_probs, obj_thresh)
Filter ==
    /\ flt_pc = "call"
    /\ flt_ret' = FilterBoxes(flt_boxes, flt_conf, flt_probs, flt_thr)
    /\ flt_pc' = "done"
    /\ UNCHANGED <<flt_boxes, flt_conf, flt_probs, flt_thr>>
    /\ UNCHANGED nonFltVars

-----------------------------------------------------------------------------
(* yolov8_postprocess, lines 154-182: filter, per-class suppression, result *)

\* all orders in which a finite set can be enumerated
Perms(S) ==
    LET n == Cardinality(S)
    IN  { q \in [1..n -> S] : \A i, j \in 1..n : i # j => q[i] # q[j] }

Range(q) == { q[i] : i \in DOMAIN q }

NoAcc == [boxes |-> <<>>, classes |-> <<>>, scores |-> <<>>, idx |-> <<>>]

PostResult_Empty(acc) == [none |-> FALSE] @@ acc
\* lines 175-182; acc holds the concatenation of nboxes, nclasses, nscores
PostResult(acc) ==
    IF acc.classes = <<>> /\ acc.scores = <<>>
    THEN [none |-> TRUE] @@ NoRet
    ELSE [none |-> FALSE] @@ acc

PpIdle ==
    /\ pp_boxes = <<>>
    /\ pp_probs = <<>>
    /\ pp_obj = <<1, 4>>
    /\ pp_iou = <<45, 100>>
    /\ pp_f = NoRet
    /\ pp_todo = <<>>
    /\ pp_acc = NoAcc
    /\ pp_ret = [none |-> TRUE] @@ NoRet
    /\ pp_pc = "idle"

\* the candidates of all scale levels are concatenated (lines 154-156)
InitPpCall ==
    /\ \E n \in 0..MaxCands : \E cs \in [1..n -> CandPool] :
          /\ pp_boxes = [i \in 1..n |-> cs[i][1]]
          /\ pp_probs = [i \in 1..n |-> cs[i][2]]
    /\ pp_obj \in ObjThresholds
    /\ pp_iou \in PostIouThresholds
    /\ pp_f = NoRet
    /\ pp_todo = <<>>
    /\ pp_acc = NoAcc
    /\ pp_ret = [none |-> TRUE] @@ NoRet
    /\ pp_pc = "filter"

\* lines 159-163: the filter, with the unit confidences of line 143, and the
\* creation of the iterator over set(classes).  The order in which a set
\* yields its elements is fixed by the hash table, not by the program.
PostFilter ==
    /\ pp_pc = "filter"
    /\ LET f == FilterBoxes(pp_boxes, [i \in DOMAIN pp_boxes |-> ProbDen],
                            pp_probs, pp_obj)
       IN  /\ pp_f' = f
           /\ pp_todo' \in Perms(Range(f.classes))
    /\ pp_pc' = "loop"
    /\ UNCHANGED <<pp_boxes, pp_probs, pp_obj, pp_iou, pp_acc, pp_ret>>
    /\ UNCHANGED nonPpVars

\* lines 164-173: one iteration of the for loop, for class c = Head(pp_todo)
PostNmsClass ==
    /\ pp_pc = "loop"
    /\ pp_todo # <<>>
    /\ LET c == Head(pp_todo)
           inds == Where([i \in DOMAIN pp_f.classes |-> pp_f.classes[i] = c])
           b == Gather(pp_f.boxes, inds)
           cls == Gather(pp_f.classes, inds)
           sc == Gather(pp_f.scores, inds)
           ix == Gather(pp_f.idx, inds)
       IN  \E o \in ArgsortDesc(sc) :
              LET keep == NmsLoop(b, o, pp_iou)
              IN  pp_acc' =
                     IF Len(keep) # 0
                     THEN [ boxes   |-> pp_acc.boxes \o Gather(b, keep),
                            classes |-> pp_acc.classes \o Gather(cls, keep),
                            scores  |-> pp_acc.scores \o Gather(sc, keep),
                            idx     |-> pp_acc.idx \o Gather(ix, keep) ]
                     ELSE pp_acc
    /\ pp_todo' = Tail(pp_todo)
    /\ UNCHANGED <<pp_boxes, pp_probs, pp_obj, pp_iou, pp_f, pp_ret, pp_pc>>
    /\ UNCHANGED nonPpVars

\* lines 175-182: the loop is over; build the result
PostReturn ==
    /\ pp_pc = "loop"
    /\ pp_todo = <<>>
    /\ pp_ret' = PostResult(pp_acc)
    /\ pp_pc' = "done"
    /\ UNCHANGED <<pp_boxes, pp_probs, pp_obj, pp_iou, pp_f, pp_todo, pp_acc>>
    /\ UNCHANGED nonPpVars

-----------------------------------------------------------------------------
(* preprocess_with_letterbox (src/src/common/preprocess.py:33-63)           *)

\* A rational is <<num, den>> with den > 0, kept in lowest terms.
RECURSIVE Gcd(_, _)
Gcd(a, b) == IF b = 0 THEN a ELSE Gcd(b, a % b)

Abs(a) == IF a < 0 THEN -a ELSE a

RNorm(r) ==
    LET g == Gcd(Abs(r[1]), r[2])
    IN  <<r[1] \div g, r[2] \div g>>

RInt(k) == <<k, 1>>
RLeq(a, b) == a[1] * b[2] <= b[1] * a[2]

\* Products x * scale of line 53 that IEEE double arithmetic places just
\* below the integer they equal in exact arithmetic, among the sizes of
\* FrameWidths, FrameHeights and CanvasSizes: 77 * (640 / 77) is
\* 639.9999999999999.
TruncShort == { <<77, <<640, 77>>>> }

\* line 52: min(target_w / w, target_h / h)
LetterboxScale(w, h, tw, th) ==
    IF RLeq(<<tw, w>>, <<th, h>>) THEN RNorm(<<tw, w>>) ELSE RNorm(<<th, h>>)

\* line 53: int(x * scale), the double product truncated toward zero
IntMul(x, s) ==
    LET exact == (x * s[1]) \div s[2]
    IN  IF <<x, s>> \in TruncShort THEN exact - 1 ELSE exact

\* lines 49-63.  cv2.resize (line 55) raises when a side of the new size is
\* 0; the function then returns nothing.
Letterbox(w, h, tw, th) ==
    LET scale == LetterboxScale(w, h, tw, th)
        new_w == IntMul(w, scale)
        new_h == IntMul(h, scale)
    IN  [ raised |-> (new_w = 0 \/ new_h = 0),
          scale  |-> scale,
          new_w  |-> new_w,
          new_h  |-> new_h,
          pad_x  |-> (tw - new_w) \div 2,
          pad_y  |-> (th - new_h) \div 2 ]

FrameWidths == {1, 3, 50, 100, 640, 800, 1280, 1920}
FrameHeights == {1, 2, 77, 100, 480, 601, 640, 720, 1080}
\* target_size, (width, height); config.py:12 is the first
CanvasSizes == { <<640, 640>>, <<640, 480>>, <<4, 4>> }

NoLetterbox ==
    [ raised |-> FALSE, scale |-> RInt(1), new_w |-> 0, new_h |-> 0,
      pad_x |-> 0, pad_y |-> 0 ]

LbIdle ==
    /\ lb_w = 1
    /\ lb_h = 1
    /\ lb_tw = 1
    /\ lb_th = 1
    /\ lb_ret = NoLetterbox
    /\ lb_pc = "idle"

InitLbCall ==
    /\ lb_w \in FrameWidths
    /\ lb_h \in FrameHeights
    /\ \E t \in CanvasSizes : lb_tw = t[1] /\ lb_th = t[2]
    /\ lb_ret = NoLetterbox
    /\ lb_pc = "call"

\* preprocess_with_letterbox(img, target_size)
LetterboxCall ==
    /\ lb_pc = "call"
    /\ lb_ret' = Letterbox(lb_w, lb_h, lb_tw, lb_th)
    /\ lb_pc' = "done"
    /\ UNCHANGED <<lb_w, lb_h, lb_tw, lb_th>>
    /\ UNCHANGED nonLbVars

-----------------------------------------------------------------------------
(* restore_coords (src/src/common/preprocess.py:66-85)                      *)

RSubInt(r, k) == <<r[1] - k * r[2], r[2]>>
RAddInt(r, k) == <<r[1] + k * r[2], r[2]>>
RDiv(r, s) == RNorm(<<r[1] * s[2], r[2] * s[1]>>)
RMul(r, s) == RNorm(<<r[1] * s[1], r[2] * s[2]>>)

\* an array argument: none = TRUE is None, rows are <<x1, y1, x2, y2>>
NoneBoxes == [none |-> TRUE, rows |-> <<>>]
BoxRows(rows) == [none |-> FALSE, rows |-> rows]

RestoreCoords_DivideFirst(boxes, scale, pad) ==
    IF boxes.none THEN NoneBoxes
    ELSE BoxRows([ i \in DOMAIN boxes.rows |->
            LET b == boxes.rows[i]
            IN  << RSubInt(RDiv(b[1], scale), pad[1]),
                   RSubInt(RDiv(b[2], scale), pad[2]),
                   RSubInt(RDiv(b[3], scale), pad[1]),
                   RSubInt(RDiv(b[4], scale), pad[2]) >> ])
\* lines 78-85: the value returned
RestoreCoords(boxes, scale, pad) ==
    IF boxes.none THEN NoneBoxes
    ELSE BoxRows([ i \in DOMAIN boxes.rows |->
            LET b == boxes.rows[i]
            IN  << RDiv(RSubInt(b[1], pad[1]), scale),
                   RDiv(RSubInt(b[2], pad[2]), scale),
                   RDiv(RSubInt(b[3], pad[1]), scale),
                   RDiv(RSubInt(b[4], pad[2]), scale) >> ])

\* line 82: the assignments of lines 83-84 go to a copy, so the caller's
\* array is after the call what it was before
RestoreArgAfter(boxes, scale, pad) == boxes

\* canvas-space boxes, scales in (0, 5] and pads >= 0
RowPool ==
    { << <<100, 1>>, <<150, 1>>, <<200, 1>>, <<250, 1>> >>,
      << <<0, 1>>, <<0, 1>>, <<640, 1>>, <<640, 1>> >>,
      << <<201, 2>>, <<140, 1>>, <<1279, 4>>, <<500, 1>> >>,
      << <<50, 1>>, <<100, 1>>, <<50, 1>>, <<100, 1>> >> }
ScalePool == { <<1, 2>>, <<1, 3>>, <<1, 1>>, <<4, 5>>, <<5, 1>>, <<1, 1000>> }
PadPool == { <<0, 0>>, <<50, 100>>, <<0, 140>>, <<7, 0>> }

RcIdle ==
    /\ rc_boxes = NoneBoxes
    /\ rc_in = NoneBoxes
    /\ rc_scale = RInt(1)
    /\ rc_pad = <<0, 0>>
    /\ rc_ret = NoneBoxes
    /\ rc_pc = "idle"

InitRcCall ==
    /\ rc_boxes \in {NoneBoxes} \cup
                    { BoxRows(q) : q \in UNION { [1..n -> RowPool] : n \in 0..2 } }
    /\ rc_in = rc_boxes
    /\ rc_scale \in ScalePool
    /\ rc_pad \in PadPool
    /\ rc_ret = NoneBoxes
    /\ rc_pc = "call"

\* restore_coords(boxes, scale, pad)
RestoreCall ==
    /\ rc_pc = "call"
    /\ rc_ret' = RestoreCoords(rc_boxes, rc_scale, rc_pad)
    /\ rc_boxes' = RestoreArgAfter(rc_boxes, rc_scale, rc_pad)
    /\ rc_pc' = "done"
    /\ UNCHANGED <<rc_in, rc_scale, rc_pad>>
    /\ UNCHANGED nonRcVars

-----------------------------------------------------------------------------
(* get_class_name (src/src/common/postprocess.py:190-194)                   *)

\* config.py:49-59
COCO_CLASSES ==
    << "person", "bicycle", "car", "motorbike", "aeroplane", "bus", "train",
       "truck", "boat", "traffic light", "fire hydrant", "stop sign",
       "parking meter", "bench", "bird", "cat", "dog", "horse", "sheep", "cow",
       "elephant", "bear", "zebra", "giraffe", "backpack", "umbrella",
       "handbag", "tie", "suitcase", "frisbee", "skis", "snowboard",
       "sports ball", "kite", "baseball bat", "baseball glove", "skateboard",
       "surfboard", "tennis racket", "bottle", "wine glass", "cup", "fork",
       "knife", "spoon", "bowl", "banana", "apple", "sandwich", "orange",
       "broccoli", "carrot", "hot dog", "pizza", "donut", "cake", "chair",
       "sofa", "pottedplant", "bed", "diningtable", "toilet", "tvmonitor",
       "laptop", "mouse", "remote", "keyboard", "cell phone", "microwave",
       "oven", "toaster", "sink", "refrigerator", "book", "clock", "vase",
       "scissors", "teddy bear", "hair drier", "toothbrush" >>

\* the f-string of line 194
ClassLabel(class_id) == "class_" \o ToString(class_id)

\* lines 192-194; a Python tuple is indexed from 0, a sequence from 1
GetClassName(class_id) ==
    IF 0 <= class_id /\ class_id < Len(COCO_CLASSES)
    THEN COCO_CLASSES[class_id + 1]
    ELSE ClassLabel(class_id)

ClassIds == (-20 .. 100) \cup {999}

CnIdle ==
    /\ cn_id = 0
    /\ cn_ret = ""
    /\ cn_pc = "idle"

InitCnCall ==
    /\ cn_id \in ClassIds
    /\ cn_ret = ""
    /\ cn_pc = "call"

\* get_class_name(class_id)
ClassNameCall ==
    /\ cn_pc = "call"
    /\ cn_ret' = GetClassName(cn_id)
    /\ cn_pc' = "done"
    /\ UNCHANGED cn_id
    /\ UNCHANGED nonCnVars

-----------------------------------------------------------------------------
(* BaseDetector.detect (src/src/detectors/detector.py:40-75); the chain of  *)
(* BaseRKNNModel.infer (base_model.py:59-63) with the preprocess and        *)
(* postprocess of yolo_detector.py:34-52 has the same steps.                *)

\* config.py:12, 17, 20
MODEL_INPUT_SIZE == <<640, 640>>
OBJ_THRESH == <<1, 4>>
NMS_THRESH == <<45, 100>>

\* postprocess.py:166-168 for one class: the positions of its rows in the
\* descending score order t of all rows
ClassOrder(t, inds) ==
    LET mine == SelectSeq(t, LAMBDA g : \E k \in DOMAIN inds : inds[k] = g)
    IN  [ j \in DOMAIN mine |-> CHOOSE k \in DOMAIN inds : inds[k] = mine[j] ]

RECURSIVE PostLoop(_, _, _, _)
\* postprocess.py:163-173, visiting the classes in the order todo
PostLoop(f, iou, todo, t) ==
    IF todo = <<>> THEN NoAcc
    ELSE LET c == Head(todo)
             inds == Where([i \in DOMAIN f.classes |-> f.classes[i] = c])
             b == Gather(f.boxes, inds)
             keep == NmsLoop(b, ClassOrder(t, inds), iou)
             rest == PostLoop(f, iou, Tail(todo), t)
         IN  [ boxes   |-> Gather(b, keep) \o rest.boxes,
               classes |-> Gather(Gather(f.classes, inds), keep) \o rest.classes,
               scores  |-> Gather(Gather(f.scores, inds), keep) \o rest.scores,
               idx     |-> Gather(Gather(f.idx, inds), keep) \o rest.idx ]

\* postprocess.py:158-182: the results the call can have
Postprocess(outputs, obj, iou) ==
    LET f == FilterBoxes(outputs.boxes,
                         [i \in DOMAIN outputs.boxes |-> ProbDen],
                         outputs.probs, obj)
    IN  { PostResult(PostLoop(f, iou, q, t)) :
             q \in Perms(Range(f.classes)), t \in ArgsortDesc(f.scores) }

\* the boxes of a result as an array argument; candidate boxes have integer
\* coordinates
AsBoxes(post) ==
    IF post.none THEN NoneBoxes
    ELSE BoxRows([ i \in DOMAIN post.boxes |->
            [ k \in 1..4 |-> RInt(post.boxes[i][k][1]) ] ])

NoDetection ==
    [ none |-> TRUE, boxes |-> <<>>, classes |-> <<>>, scores |-> <<>>,
      names |-> <<>> ]

\* detector.py:70-75
DetectResult(post, scale, pad) ==
    IF ~post.none
    THEN [ none    |-> FALSE,
           boxes   |-> RestoreCoords(AsBoxes(post), scale, pad).rows,
           classes |-> post.classes,
           scores  |-> post.scores,
           names   |-> [ i \in DOMAIN post.classes |->
                            GetClassName(post.classes[i]) ] ]
    ELSE NoDetection

CachedLetterbox_Stale(prev, r) == prev
\* detector.py:59: the assignment to self._scale, self._pad
CachedLetterbox(prev, r) == <<r.scale, <<r.pad_x, r.pad_y>>>>

AfterBackendError_Retry == "infer"
\* detector.py:62 is in no try block: an exception of self._inference ends
\* the call
AfterBackendError == "raised"

\* frames, (width, height)
DetFrames == { <<1280, 720>>, <<800, 601>>, <<640, 640>>, <<1920, 1>> }

\* outputs of the backend, as the candidates they decode to
DetOutputs ==
    { [ boxes |-> <<>>, probs |-> <<>> ],
      [ boxes |-> << Box(40, 40, 50, 50) >>, probs |-> << <<0, 0, 0>> >> ],
      [ boxes |-> << Box(0, 0, 10, 10) >>, probs |-> << <<4, 0, 0>> >> ],
      [ boxes |-> << Box(100, 150, 200, 250), Box(320, 320, 640, 640) >>,
        probs |-> << <<3, 1, 0>>, <<0, 3, 3>> >> ] }

NoOutputs == [ boxes |-> <<>>, probs |-> <<>> ]
NoPost == [none |-> TRUE] @@ NoRet

\* BaseDetector.__init__, lines 23-28
DetIdle ==
    /\ det_scale = RInt(1)
    /\ det_pad = <<0, 0>>
    /\ det_pc = "idle"
    /\ det_w = 1
    /\ det_h = 1
    /\ det_outputs = NoOutputs
    /\ det_post = NoPost
    /\ det_ret = NoDetection
    /\ det_calls = 0
    /\ det_infer_calls = 0
    /\ det_post_ran = FALSE
    /\ det_restore_ran = FALSE
    /\ det_err = "none"
    /\ det_prev_scale = RInt(1)
    /\ det_prev_failed = FALSE

\* detect(img) is called, by the single caller, when no call is in progress
DetectCall ==
    /\ det_pc \in {"idle", "returned", "raised"}
    /\ det_calls < MaxCalls
    /\ \E fr \in DetFrames : det_w' = fr[1] /\ det_h' = fr[2]
    /\ det_pc' = "pre"
    /\ det_calls' = det_calls + 1
    /\ det_infer_calls' = 0
    /\ det_post_ran' = FALSE
    /\ det_restore_ran' = FALSE
    /\ det_err' = "none"
    /\ det_prev_scale' = det_scale
    /\ det_prev_failed' = (det_pc = "raised")
    /\ det_outputs' = NoOutputs
    /\ det_post' = NoPost
    /\ det_ret' = NoDetection
    /\ UNCHANGED <<det_scale, det_pad>>
    /\ UNCHANGED nonDetVars

\* line 59: the letterbox; when it raises nothing is assigned
DetectPre ==
    /\ det_pc = "pre"
    /\ LET r == Letterbox(det_w, det_h, MODEL_INPUT_SIZE[1], MODEL_INPUT_SIZE[2])
       IN  IF r.raised
           THEN /\ det_pc' = "raised"
                /\ det_err' = "letterbox"
                /\ UNCHANGED <<det_scale, det_pad>>
           ELSE /\ det_pc' = "infer"
                /\ det_scale' = CachedLetterbox(<<det_scale, det_pad>>, r)[1]
                /\ det_pad' = CachedLetterbox(<<det_scale, det_pad>>, r)[2]
                /\ UNCHANGED det_err
    /\ UNCHANGED <<det_w, det_h, det_outputs, det_post, det_ret, det_calls,
                   det_infer_calls, det_post_ran, det_restore_ran,
                   det_prev_scale, det_prev_failed>>
    /\ UNCHANGED nonDetVars

\* line 62: self._inference returns the outputs of the backend
DetectInfer ==
    /\ det_pc = "infer"
    /\ det_infer_calls' = det_infer_calls + 1
    /\ det_outputs' \in DetOutputs
    /\ det_pc' = "post"
    /\ UNCHANGED <<det_scale, det_pad, det_w, det_h, det_post, det_ret,
                   det_calls, det_post_ran, det_restore_ran, det_err,
                   det_prev_scale, det_prev_failed>>
    /\ UNCHANGED nonDetVars

\* line 62: the backend raises
DetectInferRaise ==
    /\ det_pc = "infer"
    /\ det_infer_calls' = det_infer_calls + 1
    /\ det_pc' = AfterBackendError
    /\ det_err' = "backend"
    /\ UNCHANGED <<det_scale, det_pad, det_w, det_h, det_outputs, det_post,
                   det_ret, det_calls, det_post_ran, det_restore_ran,
                   det_prev_scale, det_prev_failed>>
    /\ UNCHANGED nonDetVars

\* lines 65-75: postprocessing, restoration with the cached scale and pad,
\* names, return
DetectFinish ==
    /\ det_pc = "post"
    /\ \E post \in Postprocess(det_outputs, OBJ_THRESH, NMS_THRESH) :
          /\ det_post' = post
          /\ det_ret' = DetectResult(post, det_scale, det_pad)
          /\ det_restore_ran' = ~post.none
    /\ det_post_ran' = TRUE
    /\ det_pc' = "returned"
    /\ UNCHANGED <<det_scale, det_pad, det_w, det_h, det_outputs, det_calls,
                   det_infer_calls, det_err, det_prev_scale, det_prev_failed>>
    /\ UNCHANGED nonDetVars

-----------------------------------------------------------------------------
(* Camera (src/src/common/camera.py:9-94): the capture thread, the thread   *)
(* that starts and stops it, and a thread that calls read().                *)

\* line 78: what read() returns for the slot value f; alias says whether the
\* returned array is the slot's own buffer
NoFrameRead == [absent |-> TRUE, content |-> 0, alias |-> FALSE]
ReadResult(f) ==
    IF f # 0 THEN [absent |-> FALSE, content |-> f, alias |-> FALSE]
    ELSE NoFrameRead

CanAcquire_Unlocked(l) == TRUE
\* lines 43 and 77: `with self.lock` proceeds when no thread holds the lock
CanAcquire(l) == l = "free"

ReachedMaxRetries_After(n) == n > max_retries
\* line 47
ReachedMaxRetries(n) == n >= max_retries

SlotAfterFailedRead_Cleared(slot) == 0
\* lines 45-52 and 54-65 contain no assignment to self.frame
SlotAfterFailedRead(slot) == slot

LoopContinues_Always(running) == TRUE
\* line 38: the condition of the while loop
LoopContinues(running) == running

\* line 83: join(timeout=1.0) returns when the thread has ended or the
\* timeout has passed, whichever is first
JoinReturns(pc) == TRUE

\* Camera.__init__, lines 12-21
CamIdle ==
    /\ cam_cap = 0
    /\ cam_open = {}
    /\ cam_frame = 0
    /\ cam_running = FALSE
    /\ cam_lock = "free"
    /\ cap_pc = "none"
    /\ fail_count = 0
    /\ cap_frame = 0
    /\ main_pc = "new"
    /\ rd_pc = "idle"
    /\ rd_ret = NoFrameRead
    /\ rd_seen = 0
    /\ cam_consec = 0

\* start(), lines 67-74, with the open() of lines 23-31 succeeding; line 35
\* is the first statement of the new thread
Start ==
    /\ main_pc = "new"
    /\ cam_cap' = 1
    /\ cam_open' = {1}
    /\ cam_running' = TRUE
    /\ cap_pc' = "test"
    /\ fail_count' = 0
    /\ cam_consec' = 0
    /\ main_pc' = "running"
    /\ UNCHANGED <<cam_frame, cam_lock, cap_frame, rd_pc, rd_ret, rd_seen>>
    /\ UNCHANGED nonCamVars

\* line 38: the test of the while loop
CaptureTest ==
    /\ cap_pc = "test"
    /\ cap_pc' = IF LoopContinues(cam_running) THEN "read" ELSE "exited"
    /\ UNCHANGED <<cam_cap, cam_open, cam_frame, cam_running, cam_lock,
                   fail_count, cap_frame, main_pc, rd_pc, rd_ret, rd_seen,
                   cam_consec>>
    /\ UNCHANGED nonCamVars

\* lines 39-42: the device delivers a frame
CaptureReadOk ==
    /\ cap_pc = "read"
    /\ cam_cap \in cam_open
    /\ \E f \in 1..MaxFrames : cap_frame' = f
    /\ fail_count' = 0
    /\ cam_consec' = 0
    /\ cap_pc' = "lock"
    /\ UNCHANGED <<cam_cap, cam_open, cam_frame, cam_running, cam_lock,
                   main_pc, rd_pc, rd_ret, rd_seen>>
    /\ UNCHANGED nonCamVars

\* lines 39-41, 45-47: the read fails
CaptureReadFail ==
    /\ cap_pc = "read"
    /\ fail_count' = fail_count + 1
    /\ cam_consec' = cam_consec + 1
    /\ cap_pc' = IF ReachedMaxRetries(fail_count + 1) THEN "rc_release"
                 ELSE "sleep"
    /\ cam_frame' = SlotAfterFailedRead(cam_frame)
    /\ UNCHANGED <<cam_cap, cam_open, cam_running, cam_lock,
                   cap_frame, main_pc, rd_pc, rd_ret, rd_seen>>
    /\ UNCHANGED nonCamVars

\* line 43: the capture thread takes the lock
CaptureAcquire ==
    /\ cap_pc = "lock"
    /\ CanAcquire(cam_lock)
    /\ cam_lock' = "capture"
    /\ cap_pc' = "store"
    /\ UNCHANGED <<cam_cap, cam_open, cam_frame, cam_running, fail_count,
                   cap_frame, main_pc, rd_pc, rd_ret, rd_seen, cam_consec>>
    /\ UNCHANGED nonCamVars

\* line 44 and the end of the with block
CaptureStore ==
    /\ cap_pc = "store"
    /\ cam_frame' = cap_frame
    /\ cap_frame' = 0
    /\ cam_lock' = "free"
    /\ cap_pc' = "test"
    /\ UNCHANGED <<cam_cap, cam_open, cam_running, fail_count, main_pc,
                   rd_pc, rd_ret, rd_seen, cam_consec>>
    /\ UNCHANGED nonCamVars

\* line 52
CaptureSleep ==
    /\ cap_pc = "sleep"
    /\ cap_pc' = "test"
    /\ UNCHANGED <<cam_cap, cam_open, cam_frame, cam_running, cam_lock,
                   fail_count, cap_frame, main_pc, rd_pc, rd_ret, rd_seen,
                   cam_consec>>
    /\ UNCHANGED nonCamVars

\* lines 57-59: _reconnect releases the handle self.cap refers to
ReconnectRelease ==
    /\ cap_pc = "rc_release"
    /\ cam_open' = cam_open \ {cam_cap}
    /\ cap_pc' = "rc_open"
    /\ UNCHANGED <<cam_cap, cam_frame, cam_running, cam_lock, fail_count,
                   cap_frame, main_pc, rd_pc, rd_ret, rd_seen, cam_consec>>
    /\ UNCHANGED nonCamVars

\* lines 60-63 and 50: a new capture object, whose device handle is open or
\* (the device being away) not
ReconnectOpen ==
    /\ cap_pc = "rc_open"
    /\ cam_cap < MaxHandles
    /\ cam_cap' = cam_cap + 1
    /\ \E opened \in BOOLEAN :
          cam_open' = IF opened THEN cam_open \cup {cam_cap + 1} ELSE cam_open
    /\ fail_count' = 0
    /\ cam_consec' = 0
    /\ cap_pc' = "test"
    /\ UNCHANGED <<cam_frame, cam_running, cam_lock, cap_frame, main_pc,
                   rd_pc, rd_ret, rd_seen>>
    /\ UNCHANGED nonCamVars

\* lines 60, 64-65 and 50: the constructor raises; self.cap keeps referring
\* to the released object
ReconnectRaise ==
    /\ cap_pc = "rc_open"
    /\ fail_count' = 0
    /\ cam_consec' = 0
    /\ cap_pc' = "test"
    /\ UNCHANGED <<cam_cap, cam_open, cam_frame, cam_running, cam_lock,
                   cap_frame, main_pc, rd_pc, rd_ret, rd_seen>>
    /\ UNCHANGED nonCamVars

\* line 77: read() takes the lock
ReadAcquire ==
    /\ rd_pc = "idle"
    /\ CanAcquire(cam_lock)
    /\ cam_lock' = "reader"
    /\ rd_seen' = cam_frame
    /\ rd_pc' = "locked"
    /\ UNCHANGED <<cam_cap, cam_open, cam_frame, cam_running, cap_pc,
                   fail_count, cap_frame, main_pc, rd_ret, cam_consec>>
    /\ UNCHANGED nonCamVars

\* line 78 and the end of the with block
ReadCopy ==
    /\ rd_pc = "locked"
    /\ rd_ret' = ReadResult(cam_frame)
    /\ cam_lock' = "free"
    /\ rd_pc' = "idle"
    /\ UNCHANGED <<cam_cap, cam_open, cam_frame, cam_running, cap_pc,
                   fail_count, cap_frame, main_pc, rd_seen, cam_consec>>
    /\ UNCHANGED nonCamVars

\* stop(), line 81
Stop ==
    /\ main_pc = "running"
    /\ cam_running' = FALSE
    /\ main_pc' = "stop_join"
    /\ UNCHANGED <<cam_cap, cam_open, cam_frame, cam_lock, cap_pc, fail_count,
                   cap_frame, rd_pc, rd_ret, rd_seen, cam_consec>>
    /\ UNCHANGED nonCamVars

\* stop(), lines 82-83
StopJoin ==
    /\ main_pc = "stop_join"
    /\ JoinReturns(cap_pc)
    /\ main_pc' = "stopped"
    /\ UNCHANGED <<cam_cap, cam_open, cam_frame, cam_running, cam_lock, cap_pc,
                   fail_count, cap_frame, rd_pc, rd_ret, rd_seen, cam_consec>>
    /\ UNCHANGED nonCamVars

\* release(), line 86, and line 81 of the stop() it calls
Release ==
    /\ main_pc \in {"running", "stopped"}
    /\ cam_running' = FALSE
    /\ main_pc' = "rel_join"
    /\ UNCHANGED <<cam_cap, cam_open, cam_frame, cam_lock, cap_pc, fail_count,
                   cap_frame, rd_pc, rd_ret, rd_seen, cam_consec>>
    /\ UNCHANGED nonCamVars

\* release(): lines 82-83 of the stop() it calls
ReleaseJoin ==
    /\ main_pc = "rel_join"
    /\ JoinReturns(cap_pc)
    /\ main_pc' = "rel_cap"
    /\ UNCHANGED <<cam_cap, cam_open, cam_frame, cam_running, cam_lock, cap_pc,
                   fail_count, cap_frame, rd_pc, rd_ret, rd_seen, cam_consec>>
    /\ UNCHANGED nonCamVars

\* release(), lines 87-88
ReleaseHandle ==
    /\ main_pc = "rel_cap"
    /\ cam_open' = cam_open \ {cam_cap}
    /\ main_pc' = "released"
    /\ UNCHANGED <<cam_cap, cam_frame, cam_running, cam_lock, cap_pc,
                   fail_count, cap_frame, rd_pc, rd_ret, rd_seen, cam_consec>>
    /\ UNCHANGED nonCamVars

\* the steps of the capture thread
CaptureStep ==
    \/ CaptureTest \/ CaptureReadOk \/ CaptureReadFail \/ CaptureAcquire
    \/ CaptureStore \/ CaptureSleep \/ ReconnectRelease \/ ReconnectOpen
    \/ ReconnectRaise

-----------------------------------------------------------------------------
(* yolov8_postprocess, lines 135-143, and _box_process, lines 34-51         *)
(* (src/src/common/postprocess.py).  The distances _dfl returns (line 46)   *)
(* are inputs; they and the decoded coordinates are counted in halves.      *)

PairPerBranch_One(n) == 1
\* line 137
PairPerBranch(n) == n \div default_branch

\* lines 141-143: the indices iteration i reads
BoxIndex(n, i) == PairPerBranch(n) * i
ClassIndex(n, i) == PairPerBranch(n) * i + 1

\* line 44: the two channels of stride
Stride(img_size, grid_h, grid_w) ==
    << img_size[2] \div grid_h, img_size[1] \div grid_w >>

\* lines 39-49 for the cell (row, col): line 43 puts col in channel 0 and row
\* in channel 1 of grid; channel k of grid meets channel k of stride
BoxProcessCell(img_size, grid_h, grid_w, row, col, off) ==
    LET grid == <<col, row>>
        stride == Stride(img_size, grid_h, grid_w)
    IN  << (2 * grid[1] + 1 - off[1]) * stride[1],
           (2 * grid[2] + 1 - off[2]) * stride[2],
           (2 * grid[1] + 1 + off[3]) * stride[1],
           (2 * grid[2] + 1 + off[4]) * stride[2] >>

\* img_size, (width, height)
ImgSizes == { <<640, 640>>, <<640, 480>>, <<640, 320>> }
\* position.shape[2:4], (grid_h, grid_w)
GridShapes == { <<80, 80>>, <<60, 80>>, <<40, 40>>, <<20, 40>>, <<30, 30>> }
\* (left, top, right, bottom) distances
Offsets == { <<0, 0, 0, 0>>, <<1, 3, 2, 4>> }
Cells(g) == { <<0, 0>>, <<1, 2>>, <<g[1] - 1, g[2] - 1>> }

DecIdle ==
    /\ dec_n = 0
    /\ dec_img = MODEL_INPUT_SIZE
    /\ dec_i = 0
    /\ dec_reads = <<>>
    /\ dec_grid = <<1, 1>>
    /\ dec_cell = <<0, 0>>
    /\ dec_off = <<0, 0, 0, 0>>
    /\ dec_xyxy = <<0, 0, 0, 0>>
    /\ dec_pc = "idle"

InitDecCall ==
    /\ dec_n \in 1..MaxOutputs
    /\ dec_img \in ImgSizes
    /\ dec_i = 0
    /\ dec_reads = <<>>
    /\ dec_grid = <<1, 1>>
    /\ dec_cell = <<0, 0>>
    /\ dec_off = <<0, 0, 0, 0>>
    /\ dec_xyxy = <<0, 0, 0, 0>>
    /\ dec_pc = "loop"

\* lines 140-143: one iteration, both indices being inside outputs
DecodeBranch ==
    /\ dec_pc = "loop"
    /\ dec_i < default_branch
    /\ BoxIndex(dec_n, dec_i) < dec_n
    /\ ClassIndex(dec_n, dec_i) < dec_n
    /\ \E g \in GridShapes : \E c \in Cells(g) : \E off \in Offsets :
          /\ dec_grid' = g
          /\ dec_cell' = c
          /\ dec_off' = off
          /\ dec_xyxy' = BoxProcessCell(dec_img, g[1], g[2], c[1], c[2], off)
    /\ dec_reads' = Append(dec_reads,
                           <<BoxIndex(dec_n, dec_i), ClassIndex(dec_n, dec_i)>>)
    /\ dec_i' = dec_i + 1
    /\ UNCHANGED <<dec_n, dec_img, dec_pc>>
    /\ UNCHANGED nonDecVars

\* lines 141-142: outputs[...] with an index outside outputs raises
DecodeIndexError ==
    /\ dec_pc = "loop"
    /\ dec_i < default_branch
    /\ \/ BoxIndex(dec_n, dec_i) >= dec_n
       \/ ClassIndex(dec_n, dec_i) >= dec_n
    /\ dec_pc' = "IndexError"
    /\ UNCHANGED <<dec_n, dec_img, dec_i, dec_reads, dec_grid, dec_cell,
                   dec_off, dec_xyxy>>
    /\ UNCHANGED nonDecVars

\* line 140: the loop is over
DecodeDone ==
    /\ dec_pc = "loop"
    /\ dec_i = default_branch
    /\ dec_pc' = "done"
    /\ UNCHANGED <<dec_n, dec_img, dec_i, dec_reads, dec_grid, dec_cell,
                   dec_off, dec_xyxy>>
    /\ UNCHANGED nonDecVars

-----------------------------------------------------------------------------
(* Specifications *)

FallIdle == InitFallWith({DefaultConfig})

DetectAny == \E kp \in Keypoints : Detect(kp)
DetectAny15 == \E kp \in Keypoints15 : Detect(kp)

\* the FallDetector with small windows, driven by detect(), reset() and the clock
InitFall == InitFallWith(SmallConfigs) /\ NmsIdle /\ FltIdle /\ PpIdle
    /\ LbIdle /\ RcIdle /\ CnIdle
    /\ DetIdle
    /\ CamIdle
    /\ DecIdle
NextFall == DetectAny \/ Reset \/ Tick
SpecFall == InitFall /\ [][NextFall]_vars

\* the FallDetector with its default parameters, at one clock value
InitFall15 == InitFallWith({DefaultConfig}) /\ NmsIdle /\ FltIdle /\ PpIdle
    /\ LbIdle /\ RcIdle /\ CnIdle
    /\ DetIdle
    /\ CamIdle
    /\ DecIdle
NextFall15 == DetectAny15 \/ Reset
SpecFall15 == InitFall15 /\ [][NextFall15]_vars

\* one call of nms
InitNms == InitNmsCall /\ FallIdle /\ FltIdle /\ PpIdle
    /\ LbIdle /\ RcIdle /\ CnIdle
    /\ DetIdle
    /\ CamIdle
    /\ DecIdle
NextNms == Nms
SpecNms == InitNms /\ [][NextNms]_vars

\* one call of _filter_boxes
InitFlt == InitFltCall /\ FallIdle /\ NmsIdle /\ PpIdle
    /\ LbIdle /\ RcIdle /\ CnIdle
    /\ DetIdle
    /\ CamIdle
    /\ DecIdle
NextFlt == Filter
SpecFilter == InitFlt /\ [][NextFlt]_vars

\* one call of yolov8_postprocess
InitPost == InitPpCall /\ FallIdle /\ NmsIdle /\ FltIdle
    /\ LbIdle /\ RcIdle /\ CnIdle
    /\ DetIdle
    /\ CamIdle
    /\ DecIdle
NextPost == PostFilter \/ PostNmsClass \/ PostReturn
SpecPost == InitPost /\ [][NextPost]_vars

\* the letterbox of one frame
InitLetterbox == InitLbCall /\ FallIdle /\ NmsIdle /\ FltIdle /\ PpIdle
    /\ RcIdle /\ CnIdle
    /\ DetIdle
    /\ CamIdle
    /\ DecIdle
NextLetterbox == LetterboxCall
SpecLetterbox == InitLetterbox /\ [][NextLetterbox]_vars

\* the restoration of one array of boxes
InitRestore == InitRcCall /\ FallIdle /\ NmsIdle /\ FltIdle /\ PpIdle
    /\ LbIdle /\ CnIdle
    /\ DetIdle
    /\ CamIdle
    /\ DecIdle
NextRestore == RestoreCall
SpecRestore == InitRestore /\ [][NextRestore]_vars

\* the label of one class id
InitClassName == InitCnCall /\ FallIdle /\ NmsIdle /\ FltIdle /\ PpIdle
    /\ LbIdle /\ RcIdle
    /\ DetIdle
    /\ CamIdle
    /\ DecIdle
NextClassName == ClassNameCall
SpecClassName == InitClassName /\ [][NextClassName]_vars

\* detect() calls on one detector instance, one at a time
InitDetect == DetIdle /\ FallIdle /\ NmsIdle /\ FltIdle /\ PpIdle
    /\ LbIdle /\ RcIdle /\ CnIdle
    /\ CamIdle
    /\ DecIdle
NextDetect == DetectCall \/ DetectPre \/ DetectInfer \/ DetectInferRaise
                 \/ DetectFinish
SpecDetect == InitDetect /\ [][NextDetect]_vars

\* one Camera: its capture thread, its owner and a reader
InitCamera == CamIdle /\ FallIdle /\ NmsIdle /\ FltIdle /\ PpIdle
    /\ LbIdle /\ RcIdle /\ CnIdle /\ DetIdle
    /\ DecIdle
NextCamera == Start \/ CaptureTest \/ CaptureReadOk \/ CaptureReadFail
                 \/ CaptureAcquire \/ CaptureStore \/ CaptureSleep
                 \/ ReconnectRelease \/ ReconnectOpen \/ ReconnectRaise
                 \/ ReadAcquire \/ ReadCopy \/ Stop \/ StopJoin \/ Release
                 \/ ReleaseJoin \/ ReleaseHandle
SpecCamera == InitCamera /\ [][NextCamera]_vars

\* the decoding loop of one yolov8_postprocess call
InitDecode == InitDecCall /\ FallIdle /\ NmsIdle /\ FltIdle /\ PpIdle
    /\ LbIdle /\ RcIdle /\ CnIdle /\ DetIdle /\ CamIdle
NextDecode == DecodeBranch \/ DecodeIndexError \/ DecodeDone
SpecDecode == InitDecode /\ [][NextDecode]_vars

\* The same, with the scheduling the code relies on: the capture thread
\* takes the step it can take (the device read returns), a thread waiting
\* for the lock gets it, read() leaves its with block, and join(timeout)
\* returns.
SpecCameraFair ==
    /\ InitCamera /\ [][NextCamera]_vars
    /\ WF_vars(CaptureStep)
    /\ SF_vars(CaptureAcquire)
    /\ WF_vars(ReadCopy)
    /\ WF_vars(ReleaseJoin \/ ReleaseHandle)

-----------------------------------------------------------------------------
(* FallDetector: properties *)

\* number of true samples in the window
TrueSamples(h) == Cardinality({i \in DOMAIN h : h[i]})

Min(a, b) == IF a <= b THEN a ELSE b

\* C1: a detect() call returns is_fall = true exactly when its keypoints are
\* valid and, after appending its sample, the window holds exactly
\* threshold_frames samples of which the fraction of true ones is at least
\* confirm_ratio; the first threshold_frames - 1 valid calls return false; with
\* threshold_frames = 15 and confirm_ratio = 0.8 a full window with 12 true
\* samples returns true and one with 11 returns false.
C1_FallIffFullWindowAtRatio ==
    op = "detect" =>
      /\ ret_is_fall <=>
            /\ kp_n >= 12
            /\ Len(history) = threshold_frames
            /\ TrueSamples(history) * confirm_ratio[2]
                  >= confirm_ratio[1] * Len(history)
      /\ (kp_n >= 12 /\ Len(inputs) < threshold_frames) => ~ret_is_fall
      /\ ( /\ kp_n >= 12
           /\ threshold_frames = 15
           /\ confirm_ratio = <<4, 5>>
           /\ Len(history) = 15 ) =>
            /\ TrueSamples(history) = 12 => ret_is_fall
            /\ TrueSamples(history) = 11 => ~ret_is_fall

C1_Witness ==
    /\ op = "detect"
    /\ kp_n >= 12
    /\ threshold_frames = 15
    /\ Len(history) = 15
    /\ TrueSamples(history) = 12
    /\ ret_is_fall

\* C2: at the return of every call the window has at most threshold_frames
\* samples and is the last min(n, threshold_frames) samples
\* (angle > angle_threshold) of the n valid inputs received since
\* construction or the last reset(), in arrival order.
C2_WindowIsLastSamples ==
    LET n == Len(inputs)
        k == Len(history)
    IN  /\ k <= threshold_frames
        /\ k = Min(n, threshold_frames)
        /\ \A i \in 1..k : history[i] = (inputs[n - k + i] > angle_threshold)

C2_Witness ==
    /\ op = "detect"
    /\ Len(inputs) > threshold_frames
    /\ Len(history) = threshold_frames
    /\ (inputs[1] > angle_threshold) # history[1]

\* C3: a detect() call whose keypoints are None or fewer than 12 returns
\* is_fall = false and leaves the window and last_fall_time unchanged.
C3_RejectedCallChangesNothing ==
    [][ (op' = "detect" /\ kp_n' < 12) =>
            /\ ~ret_is_fall'
            /\ ret_angle' = 0
            /\ history' = history
            /\ last_fall_time' = last_fall_time ]_vars

C3_Witness ==
    /\ op = "detect"
    /\ kp_n < 12
    /\ alarm
    /\ ~ret_is_fall
    /\ pre_len = Len(history)
    /\ pre_len = threshold_frames
    /\ pre_lft = last_fall_time
    /\ last_fall_time # NoTime

\* C4 as stated: last_fall_time holds the time of the most recent
\* false-to-true transition of the alarm output (absent when there was none).
C4_HoldsLastTransitionTime == last_fall_time = transition_time

\* C4 as amended: every detect() call that returns true sets last_fall_time
\* to the time of that call, whether or not the previous valid call returned
\* true; a detect() call that returns false leaves it unchanged; nothing but
\* reset() makes it absent.
C4_SetOnEveryTrueCall ==
    [][ /\ (op' = "detect" /\ ret_is_fall') => last_fall_time' = now'
        /\ (op' = "detect" /\ ~ret_is_fall') => last_fall_time' = last_fall_time
        /\ op' = "tick" => last_fall_time' = last_fall_time
        /\ (last_fall_time # NoTime /\ last_fall_time' = NoTime) => op' = "reset"
      ]_vars

C4_Witness ==
    /\ op = "detect"
    /\ ret_is_fall
    /\ transition_time # NoTime
    /\ transition_time < last_fall_time
    /\ last_fall_time = now

\* C5: reset() empties the window and makes last_fall_time absent, leaving the
\* constructor parameters as they are (the state of a fresh detector); no
\* other operation empties a non-empty window or clears a set timestamp.
C5_OnlyResetClears ==
    [][ /\ op' = "reset" =>
              /\ history' = <<>>
              /\ last_fall_time' = NoTime
              /\ threshold_frames' = threshold_frames
              /\ angle_threshold' = angle_threshold
              /\ confirm_ratio' = confirm_ratio
        /\ (history # <<>> /\ history' = <<>>) => op' = "reset"
        /\ (last_fall_time # NoTime /\ last_fall_time' = NoTime) => op' = "reset"
      ]_vars

C5_Witness ==
    /\ op = "reset"
    /\ pre_len > 0
    /\ pre_lft # NoTime
    /\ history = <<>>
    /\ last_fall_time = NoTime

-----------------------------------------------------------------------------
(* nms: properties *)

InSeq(x, q) == \E i \in DOMAIN q : q[i] = x
PosIn(x, q) == CHOOSE i \in DOMAIN q : q[i] = x

\* the open interiors of two boxes have no common point
InteriorsDisjoint(bi, bj) ==
    \/ PSign(BoxW(bi)) <= 0 \/ PSign(BoxH(bi)) <= 0
    \/ PSign(BoxW(bj)) <= 0 \/ PSign(BoxH(bj)) <= 0
    \/ PLeq(PMin(bi[3], bj[3]), PMax(bi[1], bj[1]))
    \/ PLeq(PMin(bi[4], bj[4]), PMax(bi[2], bj[2]))

\* the overlap ratio of the pair is a value greater than t (an infinite ratio
\* is; an undefined one, 0/0, is not)
IoUExceeds(bi, bj, t) ==
    LET inter == Inter(bi, bj)
        denom == OvrDenom(bi, bj)
        d == PSub(PScale(t[2], inter), PScale(t[1], denom))
    IN  CASE PSign(denom) > 0 -> PSign(d) > 0
          [] PSign(denom) < 0 -> PSign(d) < 0
          [] OTHER -> PSign(inter) > 0

\* C6: nms is the greedy suppression in descending score order: a
\* highest-scoring candidate is kept first, and a candidate is discarded
\* exactly when its IoU with some kept candidate that precedes it in the score
\* order exceeds the threshold; every candidate ends up kept or discarded.
C6_GreedySuppression ==
    (nms_pc = "done" /\ Len(nms_boxes) >= 1) =>
      LET n == Len(nms_boxes) IN
      /\ Len(nms_keep) >= 1
      /\ \A c \in 1..n : nms_scores[nms_keep[1]] >= nms_scores[c]
      /\ \A i \in DOMAIN nms_keep : nms_keep[i] \in 1..n
      /\ \A c \in 1..n :
            ~InSeq(c, nms_keep) <=>
               \E k \in 1..n :
                  /\ InSeq(k, nms_keep)
                  /\ PosIn(k, nms_order) < PosIn(c, nms_order)
                  /\ IoUExceeds(nms_boxes[k], nms_boxes[c], nms_thr)

\* C7: two boxes whose interiors do not overlap are both kept at every
\* threshold below 1, and no overlap ratio of the call divides by zero.
C7_DisjointBoxesBothKept ==
    ( /\ nms_pc = "done"
      /\ Len(nms_boxes) = 2
      /\ InteriorsDisjoint(nms_boxes[1], nms_boxes[2])
      /\ nms_thr[1] < nms_thr[2] ) =>
        /\ InSeq(1, nms_keep)
        /\ InSeq(2, nms_keep)
        /\ ~nms_divzero

-----------------------------------------------------------------------------
(* _filter_boxes and yolov8_postprocess: properties *)

\* the largest element of a probability vector
MaxOf(p) == CHOOSE m \in Range(p) : \A x \in Range(p) : x <= m

\* score of a candidate >= threshold, with score = max(class_probs) * confidence
ScoreAtLeast(p, c, thr) == MaxOf(p) * c * thr[2] >= thr[1] * ScoreDen

\* equal class ids are contiguous
Grouped(cls) ==
    \A i, j, k \in DOMAIN cls : (i < j /\ j < k /\ cls[i] = cls[k]) => cls[j] = cls[i]

C9_FilterKeepsExactlyPassing ==
    flt_pc = "done" =>
      LET passing == { i \in DOMAIN flt_boxes :
                          ScoreAtLeast(flt_probs[i], flt_conf[i], flt_thr) }
          m == Len(flt_ret.idx)
      IN  /\ Range(flt_ret.idx) = passing
          /\ m = Cardinality(passing)
          /\ Len(flt_ret.boxes) = m /\ Len(flt_ret.classes) = m
          /\ Len(flt_ret.scores) = m
          /\ \A k \in 1..m :
                LET i == flt_ret.idx[k]
                    p == flt_probs[i]
                    c == flt_ret.classes[k] + 1
                IN  /\ c \in DOMAIN p
                    /\ p[c] = MaxOf(p)
                    /\ \A d \in DOMAIN p : p[d] = MaxOf(p) => c <= d
                    /\ flt_ret.scores[k] = MaxOf(p) * flt_conf[i]
                    /\ flt_ret.boxes[k] = flt_boxes[i]

C9_Witness ==
    /\ flt_pc = "done"
    /\ \E k \in DOMAIN flt_ret.idx :
          /\ flt_ret.scores[k] * flt_thr[2] = flt_thr[1] * ScoreDen
          /\ Cardinality({d \in DOMAIN flt_probs[flt_ret.idx[k]] :
                flt_probs[flt_ret.idx[k]][d] = MaxOf(flt_probs[flt_ret.idx[k]])}) >= 2
    /\ \E i \in DOMAIN flt_boxes :
          /\ i \notin Range(flt_ret.idx)
          /\ MaxOf(flt_probs[i]) > 0

\* C10 as stated: the returned detections are grouped by class and, within
\* one class, in input (candidate-index) order.
C10_GroupedThenInputOrder ==
    (pp_pc = "done" /\ ~pp_ret.none) =>
      /\ Grouped(pp_ret.classes)
      /\ \A k, l \in DOMAIN pp_ret.idx :
            (k < l /\ pp_ret.classes[k] = pp_ret.classes[l]) =>
               pp_ret.idx[k] < pp_ret.idx[l]

\* C10 as amended: the returned detections are grouped by class and, within
\* one class, in non-increasing score order (the order in which nms kept
\* them), whatever their input order.
C10_GroupedThenScoreOrder ==
    (pp_pc = "done" /\ ~pp_ret.none) =>
      /\ Grouped(pp_ret.classes)
      /\ \A k, l \in DOMAIN pp_ret.idx :
            (k < l /\ pp_ret.classes[k] = pp_ret.classes[l]) =>
               pp_ret.scores[k] >= pp_ret.scores[l]

C10_Witness ==
    /\ pp_pc = "done"
    /\ ~pp_ret.none
    /\ Cardinality(Range(pp_ret.classes)) >= 2
    /\ \E k, l \in DOMAIN pp_ret.idx :
          /\ k < l
          /\ pp_ret.classes[k] = pp_ret.classes[l]
          /\ pp_ret.scores[k] > pp_ret.scores[l]
          /\ pp_ret.idx[k] > pp_ret.idx[l]


-----------------------------------------------------------------------------
(* Properties of the letterbox, the restoration and the class labels *)

\* x * s rounded to the nearest integer
RoundMul(x, s) == (2 * x * s[1] + s[2]) \div (2 * s[2])

\* C11: for every frame of W x H pixels and target of Tw x Th the letterbox
\* returns scale = min(Tw/W, Th/H), resizes to (round(W*scale),
\* round(H*scale)), pads each axis by floor((target - new) / 2) >= 0 with
\* pad + new <= target, and for W = Tw, H = Th returns scale 1 and pad (0, 0).
C11_LetterboxRoundsAndFits ==
    lb_pc = "done" =>
        LET s == IF lb_tw * lb_h <= lb_th * lb_w
                 THEN <<lb_tw, lb_w>> ELSE <<lb_th, lb_h>>
            nw == RoundMul(lb_w, s)
            nh == RoundMul(lb_h, s)
        IN  /\ ~lb_ret.raised
            /\ lb_ret.scale[1] * s[2] = s[1] * lb_ret.scale[2]
            /\ lb_ret.new_w = nw
            /\ lb_ret.new_h = nh
            /\ lb_ret.pad_x = (lb_tw - nw) \div 2
            /\ lb_ret.pad_y = (lb_th - nh) \div 2
            /\ lb_ret.pad_x >= 0
            /\ lb_ret.pad_y >= 0
            /\ lb_ret.pad_x + lb_ret.new_w <= lb_tw
            /\ lb_ret.pad_y + lb_ret.new_h <= lb_th
            /\ (lb_w = lb_tw /\ lb_h = lb_th) =>
                  /\ lb_ret.scale = RInt(1)
                  /\ lb_ret.pad_x = 0
                  /\ lb_ret.pad_y = 0

\* the forward mapping of one coordinate: x * scale + pad
Forward(x, scale, p) == RAddInt(RMul(x, scale), p)

\* C12: restore_coords maps both corners of every box by (x - pad) / scale
\* with the pad of the coordinate's axis, so the forward mapping
\* x * scale + pad of its result is the original box; the caller's array is
\* not modified, and an absent array gives an absent result.
C12_RestoreInvertsForward ==
    rc_pc = "done" =>
        /\ rc_boxes = rc_in
        /\ rc_in.none => rc_ret.none
        /\ ~rc_in.none =>
              /\ ~rc_ret.none
              /\ Len(rc_ret.rows) = Len(rc_in.rows)
              /\ \A i \in DOMAIN rc_in.rows : \A k \in 1..4 :
                    LET x == rc_in.rows[i][k]
                        r == rc_ret.rows[i][k]
                        p == IF k \in {1, 3} THEN rc_pad[1] ELSE rc_pad[2]
                    IN  /\ r[1] * rc_scale[1] * x[2]
                              = (x[1] - p * x[2]) * r[2] * rc_scale[2]
                        /\ Forward(r, rc_scale, p) = x

\* the case of tests/test_preprocess.py:56-70 in the first of two rows, and
\* a row with fractional coordinates in the second
C12_Witness ==
    /\ rc_pc = "done"
    /\ rc_scale = <<1, 2>>
    /\ rc_pad = <<50, 100>>
    /\ ~rc_in.none
    /\ Len(rc_in.rows) = 2
    /\ rc_in.rows[1] = << <<100, 1>>, <<150, 1>>, <<200, 1>>, <<250, 1>> >>
    /\ rc_ret.rows[1] = << <<100, 1>>, <<100, 1>>, <<300, 1>>, <<300, 1>> >>
    /\ rc_in.rows[2][1] = <<201, 2>>
    /\ rc_ret.rows[2][1] = <<101, 1>>

\* C13: get_class_name returns the COCO label of an id in 0..79 (0 is
\* "person", 2 is "car") and "unknown" for every other id.
C13_LabelOrUnknown ==
    cn_pc = "done" =>
        /\ (0 <= cn_id /\ cn_id <= 79) => cn_ret = COCO_CLASSES[cn_id + 1]
        /\ cn_id = 0 => cn_ret = "person"
        /\ cn_id = 2 => cn_ret = "car"
        /\ ~(0 <= cn_id /\ cn_id <= 79) => cn_ret = "unknown"

-----------------------------------------------------------------------------
(* Properties of detect() *)

\* C14: when the backend raises during detect() the exception ends the call:
\* it is not caught, the backend is not invoked again for that call, and
\* neither postprocessing nor restoration runs; no call invokes the backend
\* more than once.
C14_BackendErrorPropagates ==
    /\ det_infer_calls <= 1
    /\ det_err = "backend" =>
          /\ det_pc = "raised"
          /\ det_infer_calls = 1
          /\ ~det_post_ran
          /\ ~det_restore_ran
          /\ det_ret = NoDetection

\* the second call on the instance ended by an exception of the backend
C14_Witness ==
    /\ det_pc = "raised"
    /\ det_err = "backend"
    /\ det_infer_calls = 1
    /\ det_calls = 2

\* C15: with a single caller, the scale and pad a call restores with are the
\* ones the letterbox of that same call returned, whatever earlier calls
\* (failed or not) left in the instance: the result is the one a fresh
\* instance gives for the same frame and the same postprocessing result.
C15_RestoreUsesOwnLetterbox ==
    LET r == Letterbox(det_w, det_h, MODEL_INPUT_SIZE[1], MODEL_INPUT_SIZE[2])
    IN  /\ det_pc \in {"infer", "post", "returned"} =>
              /\ det_scale = r.scale
              /\ det_pad = <<r.pad_x, r.pad_y>>
        /\ det_pc = "returned" =>
              det_ret = DetectResult(det_post, r.scale, <<r.pad_x, r.pad_y>>)

\* a call that returns boxes after a failed call on a frame of another shape
C15_Witness ==
    /\ det_pc = "returned"
    /\ ~det_ret.none
    /\ det_restore_ran
    /\ det_prev_failed
    /\ det_prev_scale # det_scale
    /\ det_prev_scale # RInt(1)

-----------------------------------------------------------------------------
(* Properties of the Camera *)

\* C16: the capture loop's write of the slot and read()'s check-and-copy
\* never overlap, each happening while its thread holds the lock; read()
\* returns absent when the slot was empty and otherwise a copy, in a buffer
\* of its own, of the frame that was in the slot when it took the lock.
C16_SlotAccessExclusive ==
    /\ ~(cap_pc = "store" /\ rd_pc = "locked")
    /\ cap_pc = "store" => cam_lock = "capture"
    /\ rd_pc = "locked" => (cam_lock = "reader" /\ cam_frame = rd_seen)
    /\ rd_pc = "idle" =>
          /\ rd_ret.absent = (rd_seen = 0)
          /\ ~rd_ret.absent => rd_ret.content = rd_seen
          /\ ~rd_ret.alias

\* a read() returned a copy of frame 1 while the capture thread, holding
\* frame 2, waits for the lock the next read() has taken
C16_Witness ==
    /\ rd_pc = "locked"
    /\ cap_pc = "lock"
    /\ cap_frame = 2
    /\ cam_frame = 1
    /\ rd_ret = [absent |-> FALSE, content |-> 1, alias |-> FALSE]

\* the capture thread is inside _reconnect
InReconnect == cap_pc \in {"rc_release", "rc_open"}

\* C17: the capture loop exits only when it finds the running flag cleared;
\* it enters _reconnect exactly when the failed reads since the last
\* successful read or reconnect number max_retries, the count is 0 after a
\* successful read and after a reconnect, and after a reconnect the loop
\* goes back to its test and, the flag being set, to the next read.
C17_RetriesForever ==
    /\ [](cap_pc = "exited" => ~cam_running)
    /\ [](fail_count = cam_consec)
    /\ [](InReconnect <=> cam_consec = max_retries)
    /\ [](cap_pc \in {"lock", "store"} => fail_count = 0)
    /\ [][ /\ (cap_pc = "read" /\ cap_pc' = "lock") => fail_count' = 0
           /\ (InReconnect /\ ~InReconnect') =>
                 (cap_pc' = "test" /\ fail_count' = 0)
           /\ (cap_pc = "test" /\ cap_pc' # "test" /\ cam_running) =>
                 cap_pc' = "read"
           /\ (cap_pc # "exited" /\ cap_pc' = "exited") => ~cam_running
         ]_vars

\* the loop is reading again after a second reconnect that opened nothing
C17_Witness ==
    /\ cap_pc = "read"
    /\ cam_running
    /\ cam_cap = 2
    /\ cam_open = {}
    /\ fail_count = 4

\* C18: once stop() has cleared the running flag the loop starts no
\* iteration at its next test and the capture thread ends; release() stops
\* waiting for the thread after a bounded time and then releases the handle
\* self.cap refers to, whether the thread has ended or not.
C18_StopEndsThread ==
    /\ [][ /\ (cap_pc = "test" /\ cap_pc' # "test" /\ ~cam_running) =>
                 cap_pc' = "exited"
           /\ cap_pc = "exited" => cap_pc' = "exited"
           /\ (main_pc = "rel_cap" /\ main_pc' # "rel_cap") =>
                 (main_pc' = "released" /\ cam_cap \notin cam_open')
         ]_vars
    /\ (main_pc \notin {"new", "running"}) ~> (cap_pc = "exited")
    /\ (main_pc = "rel_join") ~> (main_pc = "released")

\* release() has returned while the capture thread is still in _reconnect
C18_Witness ==
    /\ main_pc = "released"
    /\ cap_pc = "rc_open"
    /\ ~cam_running
    /\ cam_cap \notin cam_open

-----------------------------------------------------------------------------
(* Properties of the decoding loop *)

\* the loop ran to its end, each iteration reading a box tensor and a class
\* tensor inside outputs, and no tensor was read twice
ReadsDisjointInside ==
    /\ dec_pc = "done"
    /\ Len(dec_reads) = default_branch
    /\ \A i \in DOMAIN dec_reads : \A k \in 1..2 :
          0 <= dec_reads[i][k] /\ dec_reads[i][k] < dec_n
    /\ \A i \in DOMAIN dec_reads : dec_reads[i][1] # dec_reads[i][2]
    /\ \A i, j \in DOMAIN dec_reads : \A k, l \in 1..2 :
          i # j => dec_reads[i][k] # dec_reads[j][l]

\* C19: for every outputs whose length is a positive multiple of 3 the loop
\* reads, for each of the three scale groups, one box tensor and one class
\* tensor at indices inside outputs, and reads no tensor for two groups.
C19_GroupsDisjointEveryMultiple ==
    (dec_pc # "loop" /\ dec_n > 0 /\ dec_n % default_branch = 0)
        => ReadsDisjointInside

\* C19, amended: the same for every outputs whose length is a multiple of 3
\* and at least 6.
C19_GroupsDisjointFromSix ==
    (dec_pc # "loop" /\ dec_n >= 6 /\ dec_n % default_branch = 0)
        => ReadsDisjointInside

\* the nine tensors of a model with three tensors per scale
C19_Witness ==
    /\ dec_pc = "done"
    /\ dec_n = 9
    /\ dec_reads = << <<0, 1>>, <<3, 4>>, <<6, 7>> >>

\* C20: the x coordinates of a decoded box are (col + 0.5 -/+ distance)
\* times floor(Tw / grid_w) and its y coordinates (row + 0.5 -/+ distance)
\* times floor(Th / grid_h), for every canvas and grid shape.
C20_EachAxisOwnStride ==
    dec_i > 0 =>
        LET sx == dec_img[1] \div dec_grid[2]
            sy == dec_img[2] \div dec_grid[1]
            row == dec_cell[1]
            col == dec_cell[2]
        IN  dec_xyxy = << (2 * col + 1 - dec_off[1]) * sx,
                          (2 * row + 1 - dec_off[2]) * sy,
                          (2 * col + 1 + dec_off[3]) * sx,
                          (2 * row + 1 + dec_off[4]) * sy >>

\* C21: under every interleaving of release() with the capture thread, once
\* release() has returned and the capture thread has ended, no capture
\* object opened by open() or _reconnect() still has its device handle open.
C21_NoHandleLeftOpen ==
    (main_pc = "released" /\ cap_pc = "exited") => cam_open = {}

\* C22: the slot changes only when the capture loop stores the frame it has
\* just read from the device; a failed read or a reconnect leaves it as it
\* is, it never becomes empty again, and a read() returns absent exactly
\* when the slot is still empty, so never once a frame has been stored.
C22_SlotKeepsLastFrame ==
    [][ /\ cam_frame' # cam_frame =>
              (cap_pc = "store" /\ cap_frame # 0 /\ cam_frame' = cap_frame)
        /\ (cap_pc = "store" /\ cap_pc' # "store") => cam_frame' = cap_frame
        /\ (cap_pc \in {"read", "sleep", "rc_release", "rc_open"}
               /\ cap_pc' # cap_pc /\ cap_pc' # "lock") =>
              cam_frame' = cam_frame
        /\ cam_frame # 0 => cam_frame' # 0
        /\ (rd_pc = "locked" /\ rd_pc' = "idle") =>
              /\ rd_ret'.absent = (cam_frame = 0)
              /\ ~rd_ret'.absent => rd_ret'.content = cam_frame
      ]_vars

\* a read() under way during an outage: the second capture object has failed
\* max_retries times, nothing is open, and the slot still has the last frame
C22_Witness ==
    /\ InReconnect
    /\ cam_cap = 2
    /\ cam_open = {}
    /\ cam_frame = 2
    /\ rd_pc = "locked"
    /\ rd_seen = 2
    /\ rd_ret = [absent |-> FALSE, content |-> 2, alias |-> FALSE]

-----------------------------------------------------------------------------
(* Property of the FallDetector for keypoints without a right hip *)

\* C23: every detect() call with at least 12 keypoints appends exactly one
\* sample to the window (evicting the oldest one when the window is full);
\* with exactly 12 keypoints, where keypoints[12] does not exist, the call
\* returns all the same: the angle is 0, the appended sample is false and
\* the returned angle is 0.
C23_TwelveKeypointsGiveAngleZero ==
    [][ (op' = "detect" /\ kp_n' >= 12) =>
            LET k == Len(history)
                k2 == Len(history')
            IN  /\ Len(inputs') = Len(inputs) + 1
                /\ k2 = Min(k + 1, threshold_frames)
                /\ \A i \in 1..(k2 - 1) : history'[i] = history[k - (k2 - 1) + i]
                /\ history'[k2] = (ret_angle' > angle_threshold)
                /\ kp_n' = 12 =>
                      /\ ret_angle' = 0
                      /\ history'[k2] = FALSE
                      /\ inputs'[Len(inputs')] = 0 ]_vars

\* a call with 12 keypoints on a full window of true samples: the false
\* sample is appended, the oldest sample evicted, and the call returns a
\* fall with angle 0
C23_Witness ==
    /\ op = "detect"
    /\ kp_n = 12
    /\ ret_angle = 0
    /\ ret_is_fall
    /\ pre_len = threshold_frames
    /\ Len(history) = threshold_frames
    /\ history[1]
    /\ ~history[Len(history)]

=============================================================================
